---- MODULE Spec2Model ----
(***************************************************************************)
(* Model of src/minesweeper/minesweeper.py: the Minesweeper board, the     *)
(* Sentence constraint and the MinesweeperAI knowledge base.               *)
(*                                                                         *)
(* A Sentence is the record [cells, count].  MinesweeperAI.knowledge is a  *)
(* sequence of Sentences in list order.  Sentence.__eq__ is structural, so *)
(* list.remove, `in` and `!=` on Sentences are equality of records.        *)
(*                                                                         *)
(* add_knowledge is modelled as its prologue (lines 197-219) followed by   *)
(* one step per pass of its `while True` loop (lines 221-271); pc tells    *)
(* whether a call is inside the loop ("loop") or has returned ("idle").    *)
(***************************************************************************)
EXTENDS Integers, Sequences, FiniteSets, TLC

VARIABLES
    height,      \* MinesweeperAI.height (= Minesweeper.height)
    width,       \* MinesweeperAI.width  (= Minesweeper.width)
    board,       \* Minesweeper.mines: the cells that hold a mine
    moves_made,  \* MinesweeperAI.moves_made
    mines,       \* MinesweeperAI.mines
    safes,       \* MinesweeperAI.safes
    knowledge,   \* MinesweeperAI.knowledge
    pc,          \* "idle": no call in progress; "loop": inside add_knowledge's while loop
    ret,         \* value returned by the last call (add_knowledge, mark_mine and
                 \* mark_safe return None)
    last,        \* the last call made: [op, cell, count, again]; again says that a
                 \* mark_mine/mark_safe call repeats the call made just before it
    entry,       \* <<moves_made, mines, safes, knowledge>> on entry to the last add_knowledge
    ncalls       \* number of state-changing calls made so far

vars == <<height, width, board, moves_made, mines, safes, knowledge, pc, ret, last,
          entry, ncalls>>

kb == <<moves_made, mines, safes, knowledge>>

----------------------------------------------------------------------------
(* Bounds of the model *)

\* Largest number of add_knowledge / mark_mine / mark_safe calls in one run
\* when the caller is unconstrained.
MaxCalls == 3

\* Largest count an unconstrained caller reports.
MaxCount == 3

\* Longest knowledge list on which a further pass of the loop is explored.
MaxSentences == 24

\* Board sizes (height, width) explored with an unconstrained caller.
Dims == {<<1, 2>>, <<2, 2>>, <<2, 3>>}

\* Board sizes explored when the caller plays a real board.
BoardDims == {<<2, 3>>, <<3, 3>>}

\* Board sizes explored when the caller plays a real board and the
\* termination of add_knowledge is checked.
LiveDims == {<<2, 3>>, <<2, 4>>}

----------------------------------------------------------------------------
(* Values *)

\* Python's None as returned by the move functions.
None == <<>>

Sentence(cells, count) == [cells |-> cells, count |-> count]

AllCells(h, w) == (0 .. h - 1) \X (0 .. w - 1)

InBounds(c, h, w) == 0 <= c[1] /\ c[1] < h /\ 0 <= c[2] /\ c[2] < w

\* The block with `range(cell[0] - 1, cell[0] + 1)` for the rows.
Block_without_last_row(cell) == (cell[1] - 1 .. cell[1]) \X (cell[2] - 1 .. cell[2] + 1)

\* The cells visited by `for i in range(cell[0]-1, cell[0]+2): for j in
\* range(cell[1]-1, cell[1]+2)`: the 3x3 block around cell, centre included.
Block(cell) == (cell[1] - 1 .. cell[1] + 1) \X (cell[2] - 1 .. cell[2] + 1)

Range(s) == {s[i] : i \in DOMAIN s}

\* F applied to v, with v evaluated once before F uses it.
ApplyTo(v, F(_)) == CHOOSE r \in {F(x) : x \in {v}} : TRUE

----------------------------------------------------------------------------
(* Minesweeper *)

nearby_mines(b, h, w, cell) ==
    Cardinality({c \in Block(cell) : c # cell /\ InBounds(c, h, w) /\ c \in b})

----------------------------------------------------------------------------
(* Sentence *)

\* known_mines with `len(self.cells) <= self.count`.
known_mines_at_most(s) ==
    IF Cardinality(s.cells) <= s.count /\ s.count # 0 THEN s.cells ELSE {}

\* known_mines returning the empty set for every Sentence.
known_mines_never(s) == {}

known_mines(s) ==
    IF Cardinality(s.cells) = s.count /\ s.count # 0 THEN s.cells ELSE {}

\* known_safes testing the number of cells instead of the count.
known_safes_needs_empty(s) ==
    IF Cardinality(s.cells) = 0 THEN s.cells ELSE {}

known_safes(s) ==
    IF s.count = 0 THEN s.cells ELSE {}

\* Sentence.mark_mine without `self.count -= 1`.
Sentence_mark_mine_keeps_count(s, cell) ==
    IF cell \in s.cells
    THEN Sentence(s.cells \ {cell}, s.count)
    ELSE s

\* Sentence.mark_mine without `if cell in self.cells`.
Sentence_mark_mine_unguarded(s, cell) ==
    Sentence(s.cells \ {cell}, s.count - 1)

Sentence_mark_mine(s, cell) ==
    IF cell \in s.cells
    THEN Sentence(s.cells \ {cell}, s.count - 1)
    ELSE s

\* Sentence.mark_safe without `self.cells.remove(cell)`.
Sentence_mark_safe_keeps_cell(s, cell) == s

Sentence_mark_safe(s, cell) ==
    IF cell \in s.cells
    THEN Sentence(s.cells \ {cell}, s.count)
    ELSE s

----------------------------------------------------------------------------
(* MinesweeperAI: helpers on the knowledge list *)

\* `for sentence in self.knowledge: sentence.mark_mine(cell)`
KnowledgeMarkMine(k, cell) == [i \in DOMAIN k |-> Sentence_mark_mine(k[i], cell)]

\* `for sentence in self.knowledge: sentence.mark_safe(cell)`
KnowledgeMarkSafe(k, cell) == [i \in DOMAIN k |-> Sentence_mark_safe(k[i], cell)]

\* MinesweeperAI.mark_mine with `self.mines = {cell}` for `self.mines.add(cell)`.
mark_mine_replaces(mk, cell) == <<{cell}, KnowledgeMarkMine(mk[2], cell)>>

\* MinesweeperAI.mark_mine on <<self.mines, self.knowledge>>
mark_mine(mk, cell) == <<mk[1] \cup {cell}, KnowledgeMarkMine(mk[2], cell)>>

\* MinesweeperAI.mark_safe without `self.safes.add(cell)`.
mark_safe_forgets_cell(sk, cell) == <<sk[1], KnowledgeMarkSafe(sk[2], cell)>>

\* MinesweeperAI.mark_safe on <<self.safes, self.knowledge>>
mark_safe(sk, cell) == <<sk[1] \cup {cell}, KnowledgeMarkSafe(sk[2], cell)>>

\* `for mine in mines: self.mark_mine(mine)`
RECURSIVE MarkAllMines(_, _)
MarkAllMines(mk, ms) ==
    IF ms = {} THEN mk
    ELSE LET m == CHOOSE x \in ms : TRUE
         IN  ApplyTo(<<mark_mine(mk, m), ms \ {m}>>,
                     LAMBDA a : MarkAllMines(a[1], a[2]))

\* `for safe in safes: self.mark_safe(safe)`
RECURSIVE MarkAllSafes(_, _)
MarkAllSafes(sk, ss) ==
    IF ss = {} THEN sk
    ELSE LET c == CHOOSE x \in ss : TRUE
         IN  ApplyTo(<<mark_safe(sk, c), ss \ {c}>>,
                     LAMBDA a : MarkAllSafes(a[1], a[2]))

\* list.remove(s): drops the first element equal to s.
ListRemove(k, s) ==
    LET j == CHOOSE x \in DOMAIN k :
                 k[x] = s /\ \A y \in DOMAIN k : k[y] = s => x <= y
    IN  SubSeq(k, 1, j - 1) \o SubSeq(k, j + 1, Len(k))

\* `for sentence in self.knowledge: if len(sentence.cells) == 0:
\*      self.knowledge.remove(sentence)`
\* The list iterator holds an index i into the live list and advances it
\* after every element, also after a removal has shifted the tail left.
RECURSIVE RemoveEmpty(_, _)
RemoveEmpty(k, i) ==
    IF i > Len(k) THEN k
    ELSE IF k[i].cells = {}
         THEN ApplyTo(ListRemove(k, k[i]), LAMBDA k1 : RemoveEmpty(k1, i + 1))
         ELSE RemoveEmpty(k, i + 1)

\* Line 258 with `sentence1.count < sentence2.count`.
CanInfer_strict_count(s1, s2) ==
    s1.cells \subseteq s2.cells /\ s1.count < s2.count /\ s1 # s2

\* The condition of line 258 on the ordered pair (s1, s2).
CanInfer(s1, s2) ==
    s1.cells \subseteq s2.cells /\ s1.count <= s2.count /\ s1 # s2

\* Lines 259-261.
Inferred(s1, s2) == Sentence(s2.cells \ s1.cells, s2.count - s1.count)

\* The ordered pairs (index of sentence1, index of sentence2) in the order
\* the nested loops of lines 256-257 visit them.
Pairs(n) == [p \in 1 .. n * n |-> <<((p - 1) \div n) + 1, ((p - 1) % n) + 1>>]

\* Lines 255-265: new_knowledge, in the order of the nested loops.
NewKnowledge(k) ==
    LET Hit(q) == /\ CanInfer(k[q[1]], k[q[2]])
                  /\ Inferred(k[q[1]], k[q[2]]) \notin Range(k)
        hits == SelectSeq(Pairs(Len(k)), Hit)
    IN  [i \in DOMAIN hits |-> Inferred(k[hits[i][1]], k[hits[i][2]])]

\* Lines 204-216 without `new_cell not in self.safes`.
NewSentence_keeps_safes(cell, count, ms, ss, h, w) ==
    Sentence({c \in Block(cell) : InBounds(c, h, w) /\ c \notin ms},
             count - Cardinality(Block(cell) \cap ms))

\* Lines 204-216: the Sentence built from (cell, count); ms and ss are
\* self.mines and self.safes after mark_safe(cell).
NewSentence(cell, count, ms, ss, h, w) ==
    Sentence({c \in Block(cell) : InBounds(c, h, w) /\ c \notin ss /\ c \notin ms},
             count - Cardinality(Block(cell) \cap ms))

----------------------------------------------------------------------------
(* MinesweeperAI: operations *)

\* add_knowledge, lines 197-219: up to the start of the while loop.
AddKnowledge(cell, count) ==
    /\ pc = "idle"
    /\ moves_made' = moves_made \cup {cell}
    /\ LET sk == mark_safe(<<safes, knowledge>>, cell)
       IN  /\ safes' = sk[1]
           /\ knowledge' = Append(sk[2],
                    NewSentence(cell, count, mines, sk[1], height, width))
    /\ pc' = "loop"
    /\ last' = [op |-> "add_knowledge", cell |-> cell, count |-> count, again |-> FALSE]
    /\ entry' = kb
    /\ ncalls' = ncalls + 1
    /\ ret' = None
    /\ UNCHANGED <<height, width, board, mines>>

\* add_knowledge, lines 223-271: one pass of the while loop.  ms and ss are
\* the local sets `mines` and `safes` of lines 227-233, mk and sk the state
\* after the marking loops of lines 236-245, k3 the list after the removal
\* loop of lines 248-250, nk the list new_knowledge.
FixedPointPass ==
    /\ pc = "loop"
    /\ Len(knowledge) <= MaxSentences
    /\ \E ms \in {UNION {known_mines(knowledge[i]) : i \in DOMAIN knowledge}} :
       \E ss \in {UNION {known_safes(knowledge[i]) : i \in DOMAIN knowledge}} :
       \E mk \in {MarkAllMines(<<mines, knowledge>>, ms)} :
       \E sk \in {MarkAllSafes(<<safes, mk[2]>>, ss)} :
       \E k3 \in {RemoveEmpty(sk[2], 1)} :
       \E nk \in {NewKnowledge(k3)} :
           /\ mines' = mk[1]
           /\ safes' = sk[1]
           /\ knowledge' = k3 \o nk
           /\ pc' = IF ms # {} \/ ss # {} \/ nk # <<>> THEN "loop" ELSE "idle"
    /\ UNCHANGED <<height, width, board, moves_made, ret, last, entry, ncalls>>

\* MinesweeperAI.mark_mine called by the user of the class.
MarkMine(cell) ==
    /\ pc = "idle"
    /\ LET mk == mark_mine(<<mines, knowledge>>, cell)
       IN  /\ mines' = mk[1]
           /\ knowledge' = mk[2]
    /\ last' = [op |-> "mark_mine", cell |-> cell, count |-> 0,
                again |-> (last.op = "mark_mine" /\ last.cell = cell)]
    /\ ncalls' = ncalls + 1
    /\ ret' = None
    /\ UNCHANGED <<height, width, board, moves_made, safes, pc, entry>>

\* MinesweeperAI.mark_safe called by the user of the class.
MarkSafe(cell) ==
    /\ pc = "idle"
    /\ LET sk == mark_safe(<<safes, knowledge>>, cell)
       IN  /\ safes' = sk[1]
           /\ knowledge' = sk[2]
    /\ last' = [op |-> "mark_safe", cell |-> cell, count |-> 0,
                again |-> (last.op = "mark_safe" /\ last.cell = cell)]
    /\ ncalls' = ncalls + 1
    /\ ret' = None
    /\ UNCHANGED <<height, width, board, moves_made, mines, pc, entry>>

\* make_safe_move without `if cell not in self.moves_made`.
SafeMoveResults_any_safe(ss, mm) ==
    IF ss # {} THEN ss ELSE {None}

\* The values make_safe_move can return: the first cell of self.safes, in
\* the set's iteration order, that is not in moves_made, else None.
SafeMoveResults(ss, mm) ==
    IF ss \ mm # {} THEN ss \ mm ELSE {None}

make_safe_move ==
    /\ pc = "idle"
    /\ ret' \in SafeMoveResults(safes, moves_made)
    /\ last' = [op |-> "make_safe_move", cell |-> None, count |-> 0, again |-> FALSE]
    /\ UNCHANGED <<height, width, board, moves_made, mines, safes, knowledge, pc, entry, ncalls>>

\* make_random_move without `(i, j) not in self.mines`.
RandomMoveResults_any_unmoved(mm, ms, h, w) ==
    LET available == {c \in AllCells(h, w) : c \notin mm}
    IN  IF available # {} THEN available ELSE {None}

\* The values make_random_move can return: random.choice(available), else None.
RandomMoveResults(mm, ms, h, w) ==
    LET available == {c \in AllCells(h, w) : c \notin mm /\ c \notin ms}
    IN  IF available # {} THEN available ELSE {None}

make_random_move ==
    /\ pc = "idle"
    /\ ret' \in RandomMoveResults(moves_made, mines, height, width)
    /\ last' = [op |-> "make_random_move", cell |-> None, count |-> 0, again |-> FALSE]
    /\ UNCHANGED <<height, width, board, moves_made, mines, safes, knowledge, pc, entry, ncalls>>

----------------------------------------------------------------------------
(* Specifications *)

\* MinesweeperAI.__init__
InitAI ==
    /\ moves_made = {}
    /\ mines = {}
    /\ safes = {}
    /\ knowledge = <<>>
    /\ pc = "idle"
    /\ ret = None
    /\ last = [op |-> "init", cell |-> None, count |-> 0, again |-> FALSE]
    /\ entry = <<{}, {}, {}, <<>>>>
    /\ ncalls = 0

\* A knowledge base with no game attached: the caller supplies the
\* observations, any in-bounds cell with any count.
Init ==
    /\ \E d \in Dims : height = d[1] /\ width = d[2]
    /\ board = {}
    /\ InitAI

AddAny ==
    /\ ncalls < MaxCalls
    /\ \E cell \in AllCells(height, width), count \in 0 .. MaxCount :
           AddKnowledge(cell, count)

Next ==
    \/ AddAny
    \/ FixedPointPass
    \/ make_safe_move
    \/ make_random_move

Spec == Init /\ [][Next]_vars

MarkMineAny ==
    /\ ncalls < MaxCalls
    /\ \E cell \in AllCells(height, width) : MarkMine(cell)

MarkSafeAny ==
    /\ ncalls < MaxCalls
    /\ \E cell \in AllCells(height, width) : MarkSafe(cell)

NextMark ==
    \/ AddAny
    \/ FixedPointPass
    \/ MarkMineAny
    \/ MarkSafeAny

\* As Spec, and the caller also calls mark_mine and mark_safe directly.
SpecMark == Init /\ [][NextMark]_vars

\* Minesweeper.__init__ with any mine placement, and a fresh MinesweeperAI
\* of the same size.
InitBoard ==
    /\ \E d \in BoardDims : height = d[1] /\ width = d[2]
    /\ board \in SUBSET AllCells(height, width)
    /\ InitAI

\* The game loop: a cell that is not a mine and was not revealed before is
\* revealed, and the board's count for it is handed to add_knowledge.
Reveal ==
    \E cell \in AllCells(height, width) :
        /\ cell \notin board
        /\ cell \notin moves_made
        /\ AddKnowledge(cell, nearby_mines(board, height, width, cell))

NextBoard ==
    \/ Reveal
    \/ FixedPointPass

SpecBoard == InitBoard /\ [][NextBoard]_vars

\* A call of add_knowledge that has started runs on: nothing else runs
\* until it returns.
InitLive ==
    /\ \E d \in LiveDims : height = d[1] /\ width = d[2]
    /\ board \in SUBSET AllCells(height, width)
    /\ InitAI

FairSpecBoard == InitLive /\ [][NextBoard]_vars /\ WF_vars(FixedPointPass)

----------------------------------------------------------------------------
(* Properties *)

Returned == pc = "idle"

\* C1: after any sequence of add_knowledge calls on in-bounds cells with
\* any reported counts, no cell is both in mines and in safes.
C1_MinesSafesDisjoint == mines \cap safes = {}

\* The counts of a board: the number of board mines among the cells.
BoardCount(cells) == Cardinality(cells \cap board)

\* C2: when the caller plays a real board (non-mine cells, true counts,
\* each cell once), at every return from add_knowledge every known mine is
\* a mine of the board, no known safe cell is a mine of the board, and
\* every stored Sentence's count is the number of board mines in its cells.
C2_SoundAgainstBoard ==
    Returned =>
        /\ mines \subseteq board
        /\ safes \cap board = {}
        /\ \A i \in DOMAIN knowledge :
               knowledge[i].count = BoardCount(knowledge[i].cells)

\* A returned call that left a known mine and an open Sentence behind.
C2_Witness ==
    /\ Returned
    /\ last.op = "add_knowledge"
    /\ mines # {}
    /\ \E i \in DOMAIN knowledge : Cardinality(knowledge[i].cells) >= 2

\* C3: when the caller plays a real board, every call of add_knowledge
\* leaves its while loop.
C3_LoopTerminates == [](pc = "loop" => <>(pc = "idle"))

\* A call has returned after its loop declared a mine and a safe cell
\* beyond the revealed ones.
C3_Witness ==
    /\ Returned
    /\ last.op = "add_knowledge"
    /\ mines # {}
    /\ safes # moves_made

\* C4: at every return from add_knowledge no cell of mines or safes is in
\* the cells of a stored Sentence.
C4_ClassifiedCellsLeaveSentences ==
    Returned =>
        \A i \in DOMAIN knowledge : knowledge[i].cells \cap (mines \cup safes) = {}

\* A returned call with an open Sentence next to classified cells.
C4_Witness ==
    /\ Returned
    /\ last.op = "add_knowledge"
    /\ mines # {}
    /\ safes # {}
    /\ \E i \in DOMAIN knowledge : knowledge[i].cells # {}

\* C5: knowledge never holds two structurally equal Sentences once a call
\* has returned.
C5_NoDuplicateSentences ==
    Returned =>
        \A i, j \in DOMAIN knowledge : i # j => knowledge[i] # knowledge[j]

\* C6: add_knowledge for a cell that was already in moves_made returns
\* with knowledge, mines, safes and moves_made as they were on entry.
C6_RepeatedCellRejected ==
    (Returned /\ last.op = "add_knowledge" /\ last.cell \in entry[1]) => kb = entry

\* C7: no Sentence with a negative count is ever stored in knowledge.
C7_NoNegativeCount ==
    \A i \in DOMAIN knowledge : knowledge[i].count >= 0

\* C8: across add_knowledge, mark_mine and mark_safe calls and across the
\* passes of the loop, mines and safes only grow.
C8_KnownSetsOnlyGrow ==
    [][mines \subseteq mines' /\ safes \subseteq safes']_vars

\* A cell was declared a mine and then also declared safe: both sets kept it.
C8_Witness ==
    /\ ncalls >= 2
    /\ mines \cap safes # {}
    /\ last.op \in {"mark_safe", "add_knowledge"}

\* The 8 cells around cell, centre excluded.
Surrounding(cell) == Block(cell) \ {cell}

\* C9: the Sentence appended by add_knowledge(cell, count) before the loop
\* has the in-bounds surrounding cells that are in neither mines nor
\* safes, and count minus the number of surrounding cells in mines.
C9_AppendedSentence ==
    [][(last'.op = "add_knowledge" /\ ncalls' = ncalls + 1) =>
          knowledge'[Len(knowledge')] =
              Sentence({c \in Surrounding(last'.cell) :
                            /\ InBounds(c, height, width)
                            /\ c \notin mines
                            /\ c \notin safes},
                       last'.count - Cardinality(Surrounding(last'.cell) \cap mines))]_vars

\* C10: make_safe_move returns a cell of safes that is not in moves_made
\* when there is one, returns None exactly when safes is a subset of
\* moves_made, and changes nothing of the knowledge base.
C10_SafeMove ==
    [][last'.op = "make_safe_move" =>
          /\ UNCHANGED kb
          /\ (safes \ moves_made # {} => ret' \in safes \ moves_made)
          /\ (ret' = None <=> safes \subseteq moves_made)]_vars

\* make_safe_move has returned a safe cell that add_knowledge derived.
C10_Witness ==
    /\ last.op = "make_safe_move"
    /\ moves_made # {}
    /\ ret # None
    /\ ret \in safes \ moves_made

\* C11: make_random_move returns an in-bounds cell that is neither in
\* moves_made nor in mines, returns None exactly when every cell of the
\* board is in moves_made or in mines, and changes nothing of the
\* knowledge base.
C11_RandomMove ==
    [][last'.op = "make_random_move" =>
          /\ UNCHANGED kb
          /\ (ret' # None =>
                 /\ InBounds(ret', height, width)
                 /\ ret' \notin moves_made
                 /\ ret' \notin mines)
          /\ (ret' = None <=>
                 \A c \in AllCells(height, width) : c \in moves_made \/ c \in mines)]_vars

\* make_random_move has returned a cell while some cells were excluded as
\* moves made and others as known mines.
C11_Witness ==
    /\ last.op = "make_random_move"
    /\ ret # None
    /\ moves_made # {}
    /\ mines \ moves_made # {}

\* C12: a mark_mine(c) or mark_safe(c) call that directly follows the same
\* call on the same cell changes nothing of the knowledge base, and marking
\* a cell twice on a single stored Sentence gives the Sentence that marking
\* it once gives.
C12_MarkIdempotent ==
    [][/\ (/\ last.op \in {"mark_mine", "mark_safe"}
           /\ last'.op = last.op
           /\ last'.cell = last.cell
           /\ ncalls' = ncalls + 1) => UNCHANGED kb
       /\ \A i \in DOMAIN knowledge : \A c \in AllCells(height, width) :
             /\ Sentence_mark_mine(Sentence_mark_mine(knowledge[i], c), c)
                    = Sentence_mark_mine(knowledge[i], c)
             /\ Sentence_mark_safe(Sentence_mark_safe(knowledge[i], c), c)
                    = Sentence_mark_safe(knowledge[i], c)]_vars

\* mark_mine has been called twice in a row on one cell while a Sentence
\* with cells is stored.
C12_Witness ==
    /\ last.op = "mark_mine"
    /\ last.again
    /\ last.cell \in mines
    /\ \E i \in DOMAIN knowledge : knowledge[i].cells # {}

\* C13 as stated: on a fresh 3x3 knowledge base, add_knowledge((1,1), 1)
\* leaves knowledge holding {(0,0),(0,1),(1,0)} = 1, mines empty and
\* safes = {(1,1)}.
C13_Scenario1_ThreeCells ==
    (/\ height = 3 /\ width = 3
     /\ Returned
     /\ ncalls = 1
     /\ last.op = "add_knowledge" /\ last.cell = <<1, 1>> /\ last.count = 1)
    => /\ Sentence({<<0, 0>>, <<0, 1>>, <<1, 0>>}, 1) \in Range(knowledge)
       /\ mines = {}
       /\ safes = {<<1, 1>>}

\* C13 amended: on a fresh 3x3 knowledge base, add_knowledge((1,1), 1)
\* leaves knowledge holding exactly one Sentence, the eight cells around
\* (1,1) with count 1, mines empty and safes = {(1,1)}.
C13_Scenario1 ==
    (/\ height = 3 /\ width = 3
     /\ Returned
     /\ ncalls = 1
     /\ last.op = "add_knowledge" /\ last.cell = <<1, 1>> /\ last.count = 1)
    => /\ knowledge = <<Sentence(AllCells(3, 3) \ {<<1, 1>>}, 1)>>
       /\ mines = {}
       /\ safes = {<<1, 1>>}

\* The first call on a 3x3 board was add_knowledge((1,1), 1) and it has
\* returned.
C13_Witness ==
    /\ height = 3 /\ width = 3
    /\ Returned
    /\ ncalls = 1
    /\ last.op = "add_knowledge" /\ last.cell = <<1, 1>> /\ last.count = 1
    /\ moves_made = {<<1, 1>>}

\* The second call on a 3x3 board was add_knowledge((0,2), 0), made on the
\* knowledge base that add_knowledge((1,1), 1) leaves, and it has returned.
Scenario2Done ==
    /\ height = 3 /\ width = 3
    /\ Returned
    /\ ncalls = 2
    /\ last.op = "add_knowledge" /\ last.cell = <<0, 2>> /\ last.count = 0
    /\ entry = << {<<1, 1>>}, {}, {<<1, 1>>},
                  <<Sentence(AllCells(3, 3) \ {<<1, 1>>}, 1)>> >>

\* C14 as stated: after add_knowledge((1,1), 1) and add_knowledge((0,2), 0)
\* on a fresh 3x3 knowledge base, (0,1) and (1,2) are in safes and knowledge
\* contains {(0,0),(1,0)} = 1.
C14_Scenario2_TwoCells ==
    Scenario2Done
    => /\ {<<0, 1>>, <<1, 2>>} \subseteq safes
       /\ Sentence({<<0, 0>>, <<1, 0>>}, 1) \in Range(knowledge)

\* C14 amended: after the two calls (0,1) and (1,2) are in safes and
\* knowledge contains {(0,0),(1,0),(2,0),(2,1),(2,2)} = 1.
C14_Scenario2 ==
    Scenario2Done
    => /\ {<<0, 1>>, <<1, 2>>} \subseteq safes
       /\ Sentence({<<0, 0>>, <<1, 0>>, <<2, 0>>, <<2, 1>>, <<2, 2>>}, 1)
              \in Range(knowledge)

\* Both calls of the scenario have been made, in this order, and (0,2) is
\* known safe.
C14_Witness ==
    /\ Scenario2Done
    /\ moves_made = {<<1, 1>>, <<0, 2>>}
    /\ <<0, 2>> \in safes

\* C15: at every return from add_knowledge, knowledge contains no Sentence
\* whose cell set is empty.
C15_NoEmptySentence ==
    Returned => \A i \in DOMAIN knowledge : knowledge[i].cells # {}

\* C16: at every return from add_knowledge, for every two structurally
\* different stored Sentences A and B with A.cells a subset of B.cells and
\* A.count <= B.count, the Sentence (B.cells - A.cells, B.count - A.count)
\* is stored; and every Sentence that a pass of the loop adds beyond the
\* previous length of knowledge has a count that is not negative and is the
\* difference of two structurally different stored Sentences.
C16_SubsetClosed ==
    [][/\ pc' = "idle" =>
             \A i, j \in DOMAIN knowledge' :
                 (/\ knowledge'[i] # knowledge'[j]
                  /\ knowledge'[i].cells \subseteq knowledge'[j].cells
                  /\ knowledge'[i].count <= knowledge'[j].count)
                 => Sentence(knowledge'[j].cells \ knowledge'[i].cells,
                             knowledge'[j].count - knowledge'[i].count)
                        \in Range(knowledge')
       /\ pc = "loop" =>
             \A t \in Len(knowledge) + 1 .. Len(knowledge') :
                 /\ knowledge'[t].count >= 0
                 /\ \E i, j \in 1 .. t - 1 :
                       /\ knowledge'[i] # knowledge'[j]
                       /\ knowledge'[i].cells \subseteq knowledge'[j].cells
                       /\ knowledge'[t] =
                              Sentence(knowledge'[j].cells \ knowledge'[i].cells,
                                       knowledge'[j].count - knowledge'[i].count)]_vars

\* add_knowledge has returned, after a pass that derived Sentences, with a
\* Sentence, a different Sentence over a larger cell set, and the difference
\* of the two, all stored.
C16_Witness ==
    /\ Returned
    /\ last.op = "add_knowledge"
    /\ Len(knowledge) > Len(entry[4]) + 1
    /\ \E i, j \in DOMAIN knowledge :
          /\ knowledge[i].cells # {}
          /\ knowledge[i].cells \subseteq knowledge[j].cells
          /\ knowledge[i].cells # knowledge[j].cells
          /\ knowledge[i].count <= knowledge[j].count
          /\ Sentence(knowledge[j].cells \ knowledge[i].cells,
                      knowledge[j].count - knowledge[i].count) \in Range(knowledge)

\* C17: at every return from add_knowledge no stored Sentence with cells has
\* count 0 and none has a count equal to the number of its cells; and the
\* cells that such a Sentence implies at the start of a pass of the loop are
\* in safes, respectively in mines, after the pass.
C17_NoImpliedCellsLeft ==
    [][/\ pc' = "idle" =>
             \A i \in DOMAIN knowledge' :
                 knowledge'[i].cells # {} =>
                     /\ knowledge'[i].count # 0
                     /\ knowledge'[i].count # Cardinality(knowledge'[i].cells)
       /\ pc = "loop" =>
             \A i \in DOMAIN knowledge :
                 /\ knowledge[i].count = 0 => knowledge[i].cells \subseteq safes'
                 /\ (/\ knowledge[i].cells # {}
                     /\ knowledge[i].count = Cardinality(knowledge[i].cells))
                    => knowledge[i].cells \subseteq mines']_vars

\* add_knowledge has returned after marking cells as mines and cells other
\* than the revealed one as safe, with a Sentence that implies nothing left.
C17_Witness ==
    /\ Returned
    /\ last.op = "add_knowledge"
    /\ mines # entry[2]
    /\ safes \ (entry[3] \cup {last.cell}) # {}
    /\ \E i \in DOMAIN knowledge : knowledge[i].cells # {}

\* What C18 says of one Sentence s: known_mines(s) is s.cells when the
\* number of cells equals the count and the count is positive, and empty
\* otherwise; the empty Sentence with count 0 asserts no mines; known_mines
\* and known_safes are not both non-empty.
KnownMinesAsStated(s) ==
    /\ known_mines(s) =
           IF Cardinality(s.cells) = s.count /\ s.count > 0 THEN s.cells ELSE {}
    /\ (s.cells = {} /\ s.count = 0) => known_mines(s) = {}
    /\ known_mines(s) = {} \/ known_safes(s) = {}

\* C18: known_mines returns the full cell set exactly when the number of
\* cells equals the count and the count is positive, and the empty set
\* otherwise, and known_mines and known_safes of one Sentence are never both
\* non-empty: for every stored Sentence in every state, and for every
\* Sentence over the cells of the board with a count from -MaxCount up to
\* the number of cells (this part depends on height and width only, which
\* never change, so it is evaluated in the states before the first call).
C18_KnownMines ==
    /\ \A i \in DOMAIN knowledge : KnownMinesAsStated(knowledge[i])
    /\ ncalls = 0 =>
          \A cells \in SUBSET AllCells(height, width) :
              \A n \in -MaxCount .. height * width :
                  KnownMinesAsStated(Sentence(cells, n))

\* In the middle of the loop one stored Sentence makes all its cells mines
\* while an empty Sentence with count 0 is stored.
C18_Witness ==
    /\ pc = "loop"
    /\ \E i \in DOMAIN knowledge : known_mines(knowledge[i]) # {}
    /\ \E i \in DOMAIN knowledge : knowledge[i] = Sentence({}, 0)

\* C19: after any sequence of add_knowledge calls every cell of moves_made
\* is in safes, and a cell returned by make_safe_move or make_random_move is
\* not a cell of moves_made.
C19_MovesMadeAreSafe ==
    /\ moves_made \subseteq safes
    /\ (last.op \in {"make_safe_move", "make_random_move"} /\ ret # None)
       => ret \notin moves_made

\* After two add_knowledge calls on different cells make_safe_move has
\* offered a cell, while other safe cells were excluded as moves made.
C19_Witness ==
    /\ Cardinality(moves_made) >= 2
    /\ last.op = "make_safe_move"
    /\ ret # None
    /\ ret \in safes

====
